---- MODULE Spec2Model ----
(***************************************************************************)
(* State-machine model of the pokemon_card_game program                    *)
(* (src/solana/programs/pokemon-card-game/src/lib.rs).                     *)
(*                                                                         *)
(* Every instruction handler is one action.  A handler runs its require!   *)
(* guards in source order; the first one that fails is the error returned  *)
(* and no account is written.  Accounts are the program's state:           *)
(*   game_state      the GameState singleton (counters),                  *)
(*   player_state    one PlayerState per identity (init_if_needed on mint),*)
(*   pokemon_card    PokemonCard accounts, index = token_id + 1,           *)
(*   battle          Battle accounts, index = battle_id + 1,               *)
(*   trading_offer   TradingOffer accounts, index = offer_id + 1.          *)
(* The clock (Clock::get()?.unix_timestamp) is the variable now, the       *)
(* events emit!-ed by the latest call are emitted, and the latest call's   *)
(* return value is result.  calls counts the instructions that returned    *)
(* Ok, and bounds a run.  probe holds the inputs and the output of         *)
(* calculate_damage in the specification that studies it alone.            *)
(*                                                                         *)
(* Card fields that no handler ever reads (name, pokemon_type, speed,      *)
(* rarity, evolution_stage, evolution_cost, image_uri, description,        *)
(* is_active, minted_at; move name, type, accuracy, description) are       *)
(* written once by mint_pokemon_card and are left out of the records.      *)
(***************************************************************************)
EXTENDS Integers, Sequences, FiniteSets, TLC

VARIABLES game_state, player_state, pokemon_card, battle, trading_offer,
          now, calls, emitted, result, probe

vars == <<game_state, player_state, pokemon_card, battle, trading_offer,
          now, calls, emitted, result, probe>>

accounts == <<game_state, player_state, pokemon_card, battle, trading_offer>>

----------------------------------------------------------------------------
(* Economy configuration written by initialize (lib.rs:10-27).            *)

mint_price == 1000000
battle_reward == 500000
trading_fee == 100000
max_battle_duration == 3600
max_energy == 100
energy_per_turn == 10
offer_expiration_time == 604800

(* initialize sets max_cards_per_player = 1000 (lib.rs:19).  The model     *)
(* runs with the limit scaled down so that the limit is reached.           *)
max_cards_per_player == 1

----------------------------------------------------------------------------
(* Bounds of the model.                                                    *)

\* Instructions that may succeed in one run of the whole program, of the
\* card and battle instructions, of the trading instructions.
MaxCalls == 3
MaxBattleCalls == 5
MaxMoveCalls == 4
MaxTradeCalls == 2
\* Width of the machine word that stands for u64 in calculate_damage.
WordBits == 12
\* Small stat values enumerated by the damage specification.
SmallStat == 2

----------------------------------------------------------------------------
(* Inputs.                                                                 *)

\* Signers.  Pubkey::default() (lib.rs:113) is the all-zero key, which no
\* signer holds.
Identities == {"A", "B"}
DefaultPubkey == "default"
NoTarget == "None"

\* PokemonMove values a card may carry: power, energy_cost.
Tackle == [power |-> 40, energy_cost |-> 0]
Growl == [power |-> 0, energy_cost |-> 0]
Blast == [power |-> 60, energy_cost |-> 10]

\* PokemonCardData supplied to mint_pokemon_card.
CardSpecs ==
    { [hp |-> 33, attack |-> 50, defense |-> 10,
       moves |-> <<Tackle, Growl, Blast>>] }

\* Payment account balances supplied by the caller: one below the fee, the
\* fee itself.
Payments(fee) == {fee - 1, fee}

\* Teams (Vec<u64> of token ids): empty, the first card, seven cards.
Teams == {<<>>, <<0>>, <<0, 1, 2, 3, 4, 5, 6>>}

\* offered_cards and requested_cards of a trading offer: both non-empty,
\* one of them empty.
OfferLists == {<< <<5>>, <<9>> >>, << <<>>, <<9>> >>, << <<5>>, <<>> >>}

\* Clock readings: the start, and a duration of the configuration with the
\* second after it.
Deadlines(d) == {d, d + 1}
BattleInstants == Deadlines(max_battle_duration)
TradeInstants == Deadlines(offer_expiration_time)
\* A reading after both durations have passed.
PastDeadlines == {offer_expiration_time + 1}

----------------------------------------------------------------------------
(* Accounts.                                                               *)

\* A PlayerState account that has not been created yet (lib.rs:614-621).
NoPlayerState ==
    [initialized |-> FALSE, card_count |-> 0, active_battle_id |-> 0,
     energy |-> 0, wins |-> 0, losses |-> 0]

\* An account created with the full energy of the configuration.
InitIfNeededWithEnergy(ps) ==
    [ps EXCEPT !.initialized = TRUE,
               !.energy = IF ps.initialized THEN @ ELSE max_energy]

\* init_if_needed (lib.rs:400-407): a fresh account is zero-filled.
InitIfNeeded(ps) == [ps EXCEPT !.initialized = TRUE]

Ok == "Ok"
NoCall == [op |-> "none", err |-> Ok]

Init ==
    /\ game_state = [total_cards_minted |-> 0, total_battles |-> 0,
                     total_trades |-> 0]
    /\ player_state = [p \in Identities |-> NoPlayerState]
    /\ pokemon_card = <<>>
    /\ battle = <<>>
    /\ trading_offer = <<>>
    /\ now = 0
    /\ calls = 0
    /\ emitted = <<>>
    /\ result = NoCall
    /\ probe = [power |-> 0, attack |-> 0, defense |-> 0, checks |-> FALSE,
                done |-> FALSE, damage |-> 0]

\* A call that returns Ok(()).
Succeed(op) ==
    /\ calls' = calls + 1
    /\ result' = [op |-> op, err |-> Ok]

\* A call that returns Err: nothing is written, nothing is emitted.
Fail(op, err) ==
    /\ result' = [op |-> op, err |-> err]
    /\ emitted' = <<>>
    /\ UNCHANGED <<accounts, calls>>

----------------------------------------------------------------------------
(* mint_pokemon_card (lib.rs:30-81).                                       *)

\* A token id taken after the counter has been advanced.
TokenIdAfterIncrement(gs) == gs.total_cards_minted + 1

\* lib.rs:51: the token id is the current value of the counter.
TokenId(gs) == gs.total_cards_minted

\* The limit check with <= in place of <.
CanMintInclusive(ps) == ps.card_count <= max_cards_per_player

\* lib.rs:44-48
CanMint(ps) == ps.card_count < max_cards_per_player

\* The require! guards of mint_pokemon_card in source order.
MintErr(player, payment) ==
    IF ~(payment >= mint_price) THEN "InsufficientPayment"
    ELSE IF ~CanMint(player_state[player]) THEN "MaxCardsExceeded"
    ELSE Ok

\* The player record of a mint that does not count the card.
NotCounted(ps) == ps

\* lib.rs:70: player_state.card_count += 1
Counted(ps) == [ps EXCEPT !.card_count = @ + 1]

MintPokemonCard(player, card_data, payment) ==
    LET err == MintErr(player, payment)
        ps == InitIfNeeded(player_state[player])
        card == [token_id |-> TokenId(game_state),
                 owner |-> player,
                 hp |-> card_data.hp,
                 attack |-> card_data.attack,
                 defense |-> card_data.defense,
                 moves |-> card_data.moves]
    IN /\ UNCHANGED <<now, probe>>
       /\ IF err # Ok
          THEN Fail("mint_pokemon_card", err)
          ELSE /\ pokemon_card' = Append(pokemon_card, card)
               /\ game_state' =
                    [game_state EXCEPT !.total_cards_minted = @ + 1]
               /\ player_state' =
                    [player_state EXCEPT
                       ![player] = Counted(ps)]
               /\ emitted' = <<[name |-> "PokemonCardMinted",
                                id |-> card.token_id, who |-> player]>>
               /\ Succeed("mint_pokemon_card")
               /\ UNCHANGED <<battle, trading_offer>>

----------------------------------------------------------------------------
(* create_battle (lib.rs:84-135).                                          *)

\* lib.rs:104-108 and 157-161
ValidTeamSize(team) == Len(team) > 0 /\ Len(team) <= 6

\* lib.rs:98-102 and 151-155: "Check player is not already in a battle".
NotInBattle(ps) == ps.active_battle_id = 0

\* The account constraint on player_state (lib.rs:436-441) and then the
\* require! guards of create_battle in source order.
CreateBattleErr(player, team, payment) ==
    IF ~player_state[player].initialized THEN "AccountNotInitialized"
    ELSE IF ~(payment >= battle_reward) THEN "InsufficientPayment"
    ELSE IF ~NotInBattle(player_state[player]) THEN "PlayerAlreadyInBattle"
    ELSE IF ~ValidTeamSize(team) THEN "InvalidTeamSize"
    ELSE Ok

CreateBattle(player, team, payment) ==
    LET err == CreateBattleErr(player, team, payment)
        b == [battle_id |-> game_state.total_battles,
              player1 |-> player,
              player2 |-> DefaultPubkey,
              player1_pokemon |-> team,
              player2_pokemon |-> <<>>,
              status |-> "Waiting",
              turn_number |-> 0,
              current_player |-> player,
              created_at |-> now,
              finished_at |-> 0]
    IN /\ UNCHANGED <<now, probe>>
       /\ IF err # Ok
          THEN Fail("create_battle", err)
          ELSE /\ battle' = Append(battle, b)
               /\ player_state' =
                    [player_state EXCEPT
                       ![player].active_battle_id = b.battle_id]
               /\ game_state' = [game_state EXCEPT !.total_battles = @ + 1]
               /\ emitted' = <<[name |-> "BattleCreated",
                                id |-> b.battle_id, who |-> player]>>
               /\ Succeed("create_battle")
               /\ UNCHANGED <<pokemon_card, trading_offer>>

----------------------------------------------------------------------------
(* join_battle (lib.rs:138-181).  i is the index of the Battle account.    *)

\* join_battle without the check that the battle is Waiting.
JoinBattleErrAnyStatus(i, player, team) ==
    IF ~player_state[player].initialized THEN "AccountNotInitialized"
    ELSE IF ~NotInBattle(player_state[player]) THEN "PlayerAlreadyInBattle"
    ELSE IF ~ValidTeamSize(team) THEN "InvalidTeamSize"
    ELSE Ok

\* The account constraint on player_state (lib.rs:461-466) and then the
\* require! guards of join_battle in source order.
JoinBattleErr(i, player, team) ==
    IF ~player_state[player].initialized THEN "AccountNotInitialized"
    ELSE IF ~(battle[i].status = "Waiting") THEN "BattleNotAvailable"
    ELSE IF ~NotInBattle(player_state[player]) THEN "PlayerAlreadyInBattle"
    ELSE IF ~ValidTeamSize(team) THEN "InvalidTeamSize"
    ELSE Ok

\* The writes of join_battle without the change of status.
JoinedStillWaiting(b, player, team) ==
    [b EXCEPT !.player2 = player, !.player2_pokemon = team]

\* lib.rs:163-166: the battle after the join.
Joined(b, player, team) ==
    [b EXCEPT !.player2 = player, !.player2_pokemon = team,
              !.status = "Active"]

JoinBattle(i, player, team) ==
    LET err == JoinBattleErr(i, player, team)
    IN /\ UNCHANGED <<now, probe>>
       /\ IF err # Ok
          THEN Fail("join_battle", err)
          ELSE /\ battle' = [battle EXCEPT ![i] = Joined(@, player, team)]
               /\ player_state' =
                    [player_state EXCEPT
                       ![player].active_battle_id = battle[i].battle_id]
               /\ emitted' = <<[name |-> "BattleJoined",
                                id |-> battle[i].battle_id, who |-> player],
                               [name |-> "BattleStarted",
                                id |-> battle[i].battle_id,
                                who |-> DefaultPubkey]>>
               /\ Succeed("join_battle")
               /\ UNCHANGED <<game_state, pokemon_card, trading_offer>>

----------------------------------------------------------------------------
(* calculate_damage (lib.rs:351-363).                                      *)

\* u64 arithmetic, modelled on a word of WordBits bits.
Modulus == 2 ^ WordBits
\* The call does not return: arithmetic overflow with overflow checks on,
\* or division by zero.
Panic == -1

\* calculate_damage without the floor at 1.
calculate_damage_unfloored(attacker, defender, move_data, checks) ==
    LET product == move_data.power * attacker.attack
        sum == defender.defense + 50
    IN IF checks /\ (product >= Modulus \/ sum >= Modulus) THEN Panic
       ELSE IF sum % Modulus = 0 THEN Panic
       ELSE (product % Modulus) \div (sum % Modulus)

\* checks: whether the build has overflow-checks on.  With them an
\* overflowing multiplication or addition panics; without them it wraps.
calculate_damage(attacker, defender, move_data, checks) ==
    LET base_damage == move_data.power
        attack_stat == attacker.attack
        defense_stat == defender.defense
        product == base_damage * attack_stat
        sum == defense_stat + 50
    IN IF checks /\ (product >= Modulus \/ sum >= Modulus) THEN Panic
       ELSE IF sum % Modulus = 0 THEN Panic
       ELSE LET damage == (product % Modulus) \div (sum % Modulus)
            IN IF damage > 0 THEN damage ELSE 1

----------------------------------------------------------------------------
(* execute_move (lib.rs:184-261).  i is the index of the Battle account,   *)
(* cur and tgt the indices of the current_pokemon and target_pokemon       *)
(* accounts; target_pokemon_index is not used by the handler.              *)

\* lib.rs:217: moves.len() as u8
AsU8(n) == n % 256

\* The timeout check with the deadline itself rejected.
TimedOutAtDeadline(b, current_time) ==
    ~(current_time < b.created_at + max_battle_duration)

\* lib.rs:204-209
TimedOut(b, current_time) ==
    ~(current_time <= b.created_at + max_battle_duration)

\* The turn check with any participant allowed to move.
IsTurnOfAnyParticipant(b, player) == player \in {b.player1, b.player2}

\* lib.rs:198-202
IsTurnOf(b, player) == b.current_player = player

\* The account constraint on player_state (lib.rs:492-497) and then the
\* require! guards of execute_move in source order.
ExecuteMoveErr(i, player, move_index, cur) ==
    IF ~player_state[player].initialized THEN "AccountNotInitialized"
    ELSE IF ~(battle[i].status = "Active") THEN "BattleNotActive"
    ELSE IF ~IsTurnOf(battle[i], player) THEN "NotYourTurn"
    ELSE IF TimedOut(battle[i], now) THEN "BattleTimeout"
    ELSE IF ~(move_index < AsU8(Len(pokemon_card[cur].moves)))
         THEN "InvalidMove"
    ELSE IF ~(player_state[player].energy >=
                pokemon_card[cur].moves[move_index + 1].energy_cost)
         THEN "InsufficientEnergy"
    ELSE Ok

\* The battle after a move, finished only by damage above the target's hp.
AfterMoveStrict(b, player, damage, target_hp, current_time) ==
    IF damage > target_hp
    THEN [b EXCEPT !.status = "Finished", !.finished_at = current_time]
    ELSE [b EXCEPT
            !.current_player =
                IF b.current_player = b.player1 THEN b.player2
                ELSE b.player1,
            !.turn_number = @ + 1]

\* lib.rs:241-258: the battle after a move that dealt damage.
AfterMove(b, player, damage, target_hp, current_time) ==
    IF damage >= target_hp
    THEN [b EXCEPT !.status = "Finished", !.finished_at = current_time]
    ELSE [b EXCEPT
            !.current_player =
                IF b.current_player = b.player1 THEN b.player2
                ELSE b.player1,
            !.turn_number = @ + 1]

\* The damage the call may compute: the build is either one with overflow
\* checks or one without.
DamageOutcomes(attacker, defender, move_data) ==
    { calculate_damage(attacker, defender, move_data, checks) :
        checks \in BOOLEAN }

ExecuteMove(i, player, move_index, cur, tgt) ==
    LET err == ExecuteMoveErr(i, player, move_index, cur)
        move_data == pokemon_card[cur].moves[move_index + 1]
        id == battle[i].battle_id
        finished == [name |-> "BattleFinished", id |-> id, who |-> player]
    IN /\ UNCHANGED <<now, probe>>
       /\ IF err # Ok
          THEN Fail("execute_move", err)
          ELSE \E damage \in DamageOutcomes(pokemon_card[cur],
                                            pokemon_card[tgt], move_data) :
               LET moved == [name |-> "MoveExecuted", id |-> id,
                             who |-> player, damage |-> damage]
               IN IF damage = Panic
                  THEN Fail("execute_move", "ProgramFailedToComplete")
                  ELSE /\ player_state' =
                            [player_state EXCEPT
                               ![player].energy = @ - move_data.energy_cost]
                       /\ battle' =
                            [battle EXCEPT
                               ![i] = AfterMove(@, player, damage,
                                                pokemon_card[tgt].hp, now)]
                       /\ emitted' =
                            IF damage >= pokemon_card[tgt].hp
                            THEN <<moved, finished>> ELSE <<moved>>
                       /\ Succeed("execute_move")
                       /\ UNCHANGED <<game_state, pokemon_card,
                                      trading_offer>>

----------------------------------------------------------------------------
(* create_trading_offer (lib.rs:264-305).                                  *)

CreateTradingOfferErr(offered_cards, requested_cards, payment) ==
    IF ~(payment >= trading_fee) THEN "InsufficientPayment"
    ELSE IF ~(Len(offered_cards) > 0 /\ Len(requested_cards) > 0)
         THEN "InvalidTradingOffer"
    ELSE Ok

CreateTradingOffer(player, offered_cards, requested_cards, target_player, payment) ==
    LET err == CreateTradingOfferErr(offered_cards, requested_cards, payment)
        o == [offer_id |-> game_state.total_trades,
              offerer |-> player,
              offered_cards |-> offered_cards,
              target_player |-> target_player,
              requested_cards |-> requested_cards,
              is_active |-> TRUE,
              created_at |-> now,
              expires_at |-> now + offer_expiration_time]
    IN /\ UNCHANGED <<now, probe>>
       /\ IF err # Ok
          THEN Fail("create_trading_offer", err)
          ELSE /\ trading_offer' = Append(trading_offer, o)
               /\ game_state' = [game_state EXCEPT !.total_trades = @ + 1]
               /\ emitted' = <<[name |-> "TradingOfferCreated",
                                id |-> o.offer_id, who |-> player]>>
               /\ Succeed("create_trading_offer")
               /\ UNCHANGED <<player_state, pokemon_card, battle>>

----------------------------------------------------------------------------
(* accept_trading_offer (lib.rs:308-347).  i is the index of the           *)
(* TradingOffer account.                                                   *)

\* The expiry check with < in place of <=.
ExpiredAtDeadline(o, current_time) == ~(current_time < o.expires_at)

\* lib.rs:318-323
Expired(o, current_time) == ~(current_time <= o.expires_at)

\* The targeting check left out.
TargetedToAnyone(o, player) == TRUE

\* lib.rs:331-336
TargetedTo(o, player) ==
    o.target_player = NoTarget \/ o.target_player = player

\* accept_trading_offer without the check that the offer is active.
AcceptTradingOfferErrNoActiveCheck(i, player, payment) ==
    IF Expired(trading_offer[i], now) THEN "OfferExpired"
    ELSE IF ~(payment >= trading_fee) THEN "InsufficientPayment"
    ELSE IF ~TargetedTo(trading_offer[i], player)
         THEN "OfferNotTargetedToYou"
    ELSE Ok

\* The require! guards of accept_trading_offer in source order.
AcceptTradingOfferErr(i, player, payment) ==
    IF ~trading_offer[i].is_active THEN "OfferNotActive"
    ELSE IF Expired(trading_offer[i], now) THEN "OfferExpired"
    ELSE IF ~(payment >= trading_fee) THEN "InsufficientPayment"
    ELSE IF ~TargetedTo(trading_offer[i], player)
         THEN "OfferNotTargetedToYou"
    ELSE Ok

\* The write placed before the guards.
ExecuteTradeEarly(o, err) == [o EXCEPT !.is_active = FALSE]

\* The write of the handler together with the offered cards leaving the
\* offer.
ExecuteTradeTakingCards(o, err) ==
    IF err = Ok THEN [o EXCEPT !.is_active = FALSE, !.offered_cards = <<>>]
    ELSE o

\* lib.rs:338-339: the only write of the handler, placed after every guard.
ExecuteTrade(o, err) ==
    IF err = Ok THEN [o EXCEPT !.is_active = FALSE] ELSE o

AcceptTradingOffer(i, player, payment) ==
    LET err == AcceptTradingOfferErr(i, player, payment)
    IN /\ UNCHANGED <<now, probe>>
       /\ trading_offer' =
            [trading_offer EXCEPT ![i] = ExecuteTrade(@, err)]
       /\ emitted' =
            IF err = Ok
            THEN <<[name |-> "TradingOfferAccepted",
                    id |-> trading_offer[i].offer_id, who |-> player]>>
            ELSE <<>>
       /\ IF err = Ok
          THEN Succeed("accept_trading_offer")
          ELSE /\ result' = [op |-> "accept_trading_offer", err |-> err]
               /\ UNCHANGED calls
       /\ UNCHANGED <<game_state, player_state, pokemon_card, battle>>

----------------------------------------------------------------------------
(* The clock advances between calls.                                       *)

Tick(t) ==
    /\ t > now
    /\ now' = t
    /\ UNCHANGED <<accounts, calls, emitted, result, probe>>

----------------------------------------------------------------------------
MoveIndexes == 0 .. 3

\* The budget of a specification: at most max instructions succeed.
Within(max) == calls' <= max

\* The whole program.
Next ==
    \/ \E p \in Identities, c \in CardSpecs, pay \in Payments(mint_price) :
          MintPokemonCard(p, c, pay) /\ Within(MaxCalls)
    \/ \E p \in Identities, t \in Teams, pay \in Payments(battle_reward) :
          CreateBattle(p, t, pay) /\ Within(MaxCalls)
    \/ \E i \in DOMAIN battle, p \in Identities, t \in Teams :
          JoinBattle(i, p, t) /\ Within(MaxCalls)
    \/ \E i \in DOMAIN battle, p \in Identities, m \in MoveIndexes,
          cur \in DOMAIN pokemon_card, tgt \in DOMAIN pokemon_card :
          ExecuteMove(i, p, m, cur, tgt) /\ Within(MaxCalls)
    \/ \E p \in Identities, l \in OfferLists,
          t \in Identities \cup {NoTarget}, pay \in Payments(trading_fee) :
          CreateTradingOffer(p, l[1], l[2], t, pay) /\ Within(MaxCalls)
    \/ \E i \in DOMAIN trading_offer, p \in Identities,
          pay \in Payments(trading_fee) :
          AcceptTradingOffer(i, p, pay) /\ Within(MaxCalls)
    \/ \E t \in PastDeadlines : Tick(t)

Spec == Init /\ [][Next]_vars

\* The card and battle instructions alone.
NextBattle ==
    \/ \E p \in Identities, c \in CardSpecs, pay \in Payments(mint_price) :
          MintPokemonCard(p, c, pay) /\ Within(MaxBattleCalls)
    \/ \E p \in Identities, t \in Teams, pay \in Payments(battle_reward) :
          CreateBattle(p, t, pay) /\ Within(MaxBattleCalls)
    \/ \E i \in DOMAIN battle, p \in Identities, t \in Teams :
          JoinBattle(i, p, t) /\ Within(MaxBattleCalls)
    \/ \E i \in DOMAIN battle, p \in Identities, m \in MoveIndexes,
          cur \in DOMAIN pokemon_card, tgt \in DOMAIN pokemon_card :
          ExecuteMove(i, p, m, cur, tgt) /\ Within(MaxBattleCalls)
    \/ \E t \in BattleInstants : Tick(t)

SpecBattle == Init /\ [][NextBattle]_vars

\* The card and battle instructions with cards of any stats: card_data is
\* stored as supplied (lib.rs:54-65), so a card may carry a defense stat at
\* the top of the word.
Wall == [hp |-> 33, attack |-> 50, defense |-> Modulus - 50,
         moves |-> <<Tackle, Growl, Blast>>]
WideCardSpecs == CardSpecs \cup {Wall}

NextMove ==
    \/ \E p \in Identities, c \in WideCardSpecs, pay \in Payments(mint_price) :
          MintPokemonCard(p, c, pay) /\ Within(MaxMoveCalls)
    \/ \E p \in Identities, t \in Teams, pay \in Payments(battle_reward) :
          CreateBattle(p, t, pay) /\ Within(MaxMoveCalls)
    \/ \E i \in DOMAIN battle, p \in Identities, t \in Teams :
          JoinBattle(i, p, t) /\ Within(MaxMoveCalls)
    \/ \E i \in DOMAIN battle, p \in Identities, m \in MoveIndexes,
          cur \in DOMAIN pokemon_card, tgt \in DOMAIN pokemon_card :
          ExecuteMove(i, p, m, cur, tgt) /\ Within(MaxMoveCalls)
    \/ \E t \in BattleInstants : Tick(t)

SpecMove == Init /\ [][NextMove]_vars

\* The trading instructions alone.
NextTrade ==
    \/ \E p \in Identities, l \in OfferLists,
          t \in Identities \cup {NoTarget}, pay \in Payments(trading_fee) :
          CreateTradingOffer(p, l[1], l[2], t, pay) /\ Within(MaxTradeCalls)
    \/ \E i \in DOMAIN trading_offer, p \in Identities,
          pay \in Payments(trading_fee) :
          AcceptTradingOffer(i, p, pay) /\ Within(MaxTradeCalls)
    \/ \E t \in TradeInstants : Tick(t)

SpecTrade == Init /\ [][NextTrade]_vars
----------------------------------------------------------------------------
(* calculate_damage on its own: the inputs are drawn at the start and the  *)
(* function is applied once.                                               *)

\* Stat and power values: small ones, the values of the example in the
\* source's domain, and the values around the top of the word.
StatValues ==
    (0 .. SmallStat) \cup
    {40, 50, Modulus \div 2, Modulus - 50, Modulus - 49, Modulus - 1}

InitDamage ==
    /\ game_state = [total_cards_minted |-> 0, total_battles |-> 0,
                     total_trades |-> 0]
    /\ player_state = [p \in Identities |-> NoPlayerState]
    /\ pokemon_card = <<>>
    /\ battle = <<>>
    /\ trading_offer = <<>>
    /\ now = 0
    /\ calls = 0
    /\ emitted = <<>>
    /\ result = NoCall
    /\ probe \in [power : StatValues, attack : StatValues,
                  defense : StatValues, checks : BOOLEAN,
                  done : {FALSE}, damage : {0}]

ComputeDamage ==
    /\ ~probe.done
    /\ probe' = [probe EXCEPT
                   !.done = TRUE,
                   !.damage = calculate_damage([attack |-> probe.attack],
                                               [defense |-> probe.defense],
                                               [power |-> probe.power],
                                               probe.checks)]
    /\ UNCHANGED <<accounts, now, calls, emitted, result>>

NextDamage == ComputeDamage

SpecDamage == InitDamage /\ [][NextDamage]_vars

----------------------------------------------------------------------------
(* Properties.                                                             *)

OpenStatus == {"Waiting", "Active"}

\* p is player1 or player2 of battle i.
Participant(p, i) == battle[i].player1 = p \/ battle[i].player2 = p

\* p is a participant of some Waiting or Active battle.
InOpenBattle(p) ==
    \E i \in DOMAIN battle :
        battle[i].status \in OpenStatus /\ Participant(p, i)

\* C1: in every reachable state and for every player, active_battle_id is
\* non-zero if and only if the player is player1 or player2 of a battle
\* whose status is Waiting or Active.
C1_ActiveBattleIdIffInOpenBattle ==
    \A p \in Identities :
        (player_state[p].active_battle_id # 0) <=> InOpenBattle(p)

\* C2: one active battle per participant: no identity is a participant of
\* two different battles that are both Waiting or Active.
C2_OneOpenBattlePerParticipant ==
    \A p \in Identities : \A i, j \in DOMAIN battle :
        (/\ i # j
         /\ battle[i].status \in OpenStatus /\ Participant(p, i)
         /\ battle[j].status \in OpenStatus /\ Participant(p, j)) => FALSE

\* C5: the damage calculate_damage returns is at least 1 for every power,
\* attack and defense, defense = 0 and power = 0 included.
C5_DamageAtLeastOne ==
    (probe.done /\ probe.damage # Panic) => probe.damage >= 1

\* C5 witness: a weak attack (power 0 against defense 0) has been computed.
C5_Witness ==
    /\ probe.done
    /\ probe.power = 0
    /\ probe.defense = 0
    /\ probe.damage = 1
\* Every account of a kind carries its index as id: ids start at 0, grow by
\* one, and the counter is the next free id.
IdsAreCounters ==
    /\ \A i \in DOMAIN pokemon_card : pokemon_card[i].token_id = i - 1
    /\ \A i \in DOMAIN battle : battle[i].battle_id = i - 1
    /\ \A i \in DOMAIN trading_offer : trading_offer[i].offer_id = i - 1
    /\ game_state.total_cards_minted = Len(pokemon_card)
    /\ game_state.total_battles = Len(battle)
    /\ game_state.total_trades = Len(trading_offer)

\* The counters after a step, given the instruction that ran and whether it
\* returned Ok.
CountersAfter(op, ok) ==
    IF ~ok THEN game_state
    ELSE IF op = "mint_pokemon_card"
         THEN [game_state EXCEPT !.total_cards_minted = @ + 1]
    ELSE IF op = "create_battle"
         THEN [game_state EXCEPT !.total_battles = @ + 1]
    ELSE IF op = "create_trading_offer"
         THEN [game_state EXCEPT !.total_trades = @ + 1]
    ELSE game_state

\* A step is a call exactly when it leaves the clock alone; result' then
\* names the instruction that ran.
C3_Step ==
    /\ IdsAreCounters'
    /\ game_state' =
          IF now' = now THEN CountersAfter(result'.op, result'.err = Ok)
          ELSE game_state
    /\ Len(pokemon_card') > Len(pokemon_card) =>
          pokemon_card'[Len(pokemon_card')].token_id =
              game_state.total_cards_minted
    /\ Len(battle') > Len(battle) =>
          battle'[Len(battle')].battle_id = game_state.total_battles
    /\ Len(trading_offer') > Len(trading_offer) =>
          trading_offer'[Len(trading_offer')].offer_id =
              game_state.total_trades

\* C3: token ids, battle ids and offer ids are the value of their counter
\* at allocation, so the ids of each kind are 0, 1, 2, ... without gap or
\* reuse; a mint, create_battle or create_trading_offer call that fails
\* leaves the three counters unchanged, and a successful one advances its
\* own counter by exactly 1 and no other.
C3_IdsFromCounters == [][C3_Step]_vars

\* C3 witness: one account of each kind has been allocated and a mint has
\* then failed.
C3_Witness ==
    /\ game_state.total_cards_minted = 1
    /\ game_state.total_battles = 1
    /\ game_state.total_trades = 1
    /\ result.op = "mint_pokemon_card"
    /\ result.err # Ok

\* C4: a call that returns an error leaves every record and every counter
\* as it was and emits no event.
C4_FailureWritesNothing ==
    [][result'.err # Ok => (UNCHANGED accounts /\ emitted' = <<>>)]_vars

\* C4 witness: accept_trading_offer has failed at its last guard, on an
\* offer that exists and is still active.
C4_Witness ==
    /\ result = [op |-> "accept_trading_offer",
                 err |-> "OfferNotTargetedToYou"]
    /\ \E i \in DOMAIN trading_offer : trading_offer[i].is_active
C6_Original_Step ==
    /\ \A p \in Identities : player_state'[p].card_count <= max_cards_per_player
    /\ \A p \in Identities, c \in CardSpecs, pay \in Payments(mint_price) :
          MintPokemonCard(p, c, pay) =>
             /\ result'.err = "MaxCardsExceeded" <=>
                  player_state[p].card_count = max_cards_per_player
             /\ player_state[p].card_count = max_cards_per_player - 1 =>
                  result'.err = Ok

\* C6 as stated: minting fails with MaxCardsExceeded exactly when the
\* owner's card_count equals max_cards_per_player and succeeds when it is
\* one below; card_count never exceeds max_cards_per_player.
C6_Original == [][C6_Original_Step]_vars

C6_Step ==
    /\ \A p \in Identities : player_state'[p].card_count <= max_cards_per_player
    /\ \A p \in Identities, c \in CardSpecs, pay \in Payments(mint_price) :
          MintPokemonCard(p, c, pay) =>
             IF pay >= mint_price
             THEN /\ result'.err = "MaxCardsExceeded" <=>
                       player_state[p].card_count = max_cards_per_player
                  /\ player_state[p].card_count = max_cards_per_player - 1 =>
                       result'.err = Ok
             ELSE result'.err = "InsufficientPayment"

\* C6, amended: a mint whose payment is at least mint_price fails with
\* MaxCardsExceeded exactly when the owner's card_count equals
\* max_cards_per_player and succeeds when it is one below; a mint whose
\* payment is below mint_price fails with InsufficientPayment whatever the
\* card count; card_count never exceeds max_cards_per_player.
C6_MintLimit == [][C6_Step]_vars

\* C6 witness: a paid mint has been refused at the limit.
C6_Witness ==
    /\ result = [op |-> "mint_pokemon_card", err |-> "MaxCardsExceeded"]
    /\ \E p \in Identities :
          player_state[p].card_count = max_cards_per_player

AcceptInputs ==
    (DOMAIN trading_offer) \X Identities \X Payments(trading_fee)

C7_Step ==
    \A x \in AcceptInputs :
       LET o == trading_offer[x[1]]
       IN (/\ AcceptTradingOffer(x[1], x[2], x[3])
           /\ o.is_active
           /\ x[3] >= trading_fee
           /\ o.target_player \in {NoTarget, x[2]}) =>
             /\ result'.err = "OfferExpired" <=> now > o.expires_at
             /\ now <= o.expires_at => result'.err = Ok

\* C7: for an active offer, a sufficient payment and a permitted accepter,
\* accept_trading_offer fails with OfferExpired exactly when
\* now > expires_at, and succeeds at now = expires_at.
C7_ExpiryBoundary == [][C7_Step]_vars

\* C7 witness: an offer has been accepted at the very second it expires.
C7_Witness ==
    /\ result = [op |-> "accept_trading_offer", err |-> Ok]
    /\ \E i \in DOMAIN trading_offer :
          /\ ~trading_offer[i].is_active
          /\ now = trading_offer[i].expires_at
          /\ Len(emitted) = 1
          /\ emitted[1].name = "TradingOfferAccepted"
          /\ emitted[1].id = trading_offer[i].offer_id

C8_Step ==
    /\ \A i \in DOMAIN trading_offer :
          ~trading_offer[i].is_active => ~trading_offer'[i].is_active
    /\ \A x \in AcceptInputs :
          (AcceptTradingOffer(x[1], x[2], x[3])
             /\ ~trading_offer[x[1]].is_active) =>
             result'.err = "OfferNotActive"

\* C8: once an offer's is_active is false it is false in every later state,
\* and every acceptance attempt on such an offer fails with OfferNotActive
\* (so an offer is accepted at most once).
C8_OfferLifecycleOneWay == [][C8_Step]_vars

\* C8 witness: a second acceptance of an accepted offer has been refused.
C8_Witness ==
    /\ result = [op |-> "accept_trading_offer", err |-> "OfferNotActive"]
    /\ \E i \in DOMAIN trading_offer : ~trading_offer[i].is_active

\* An attempt by x[2] on offer x[1], which names another identity as target.
NotTheTarget(x) ==
    /\ trading_offer[x[1]].target_player # NoTarget
    /\ trading_offer[x[1]].target_player # x[2]

\* The guards that come before the targeting check pass.
EarlierGuardsPass(x) ==
    /\ trading_offer[x[1]].is_active
    /\ now <= trading_offer[x[1]].expires_at
    /\ x[3] >= trading_fee

C9_Original_Step ==
    \A x \in AcceptInputs :
       AcceptTradingOffer(x[1], x[2], x[3]) =>
          /\ NotTheTarget(x) =>
                /\ result'.err = "OfferNotTargetedToYou"
                /\ trading_offer'[x[1]] = trading_offer[x[1]]
          /\ (trading_offer[x[1]].target_player = NoTarget
                /\ EarlierGuardsPass(x)) => result'.err = Ok

\* C9 as stated: an attempt on a targeted offer by an identity other than
\* the target fails with OfferNotTargetedToYou and leaves the offer as it
\* was; a public offer is accepted whoever asks.
C9_Original == [][C9_Original_Step]_vars

C9_Step ==
    \A x \in AcceptInputs :
       AcceptTradingOffer(x[1], x[2], x[3]) =>
          /\ NotTheTarget(x) =>
                /\ result'.err # Ok
                /\ trading_offer'[x[1]] = trading_offer[x[1]]
                /\ EarlierGuardsPass(x) =>
                      result'.err = "OfferNotTargetedToYou"
          /\ (trading_offer[x[1]].target_player = NoTarget
                /\ EarlierGuardsPass(x)) => result'.err = Ok

\* C9, amended: an attempt on a targeted offer by an identity other than
\* the target never succeeds and leaves the offer as it was; it fails with
\* OfferNotTargetedToYou when the offer is active, not expired and the fee
\* is paid (otherwise with the error of the earlier guard that fails:
\* OfferNotActive, OfferExpired or InsufficientPayment); an active,
\* unexpired public offer is accepted whoever asks with the fee paid.
C9_OfferTargeting == [][C9_Step]_vars

\* C9 witness: an identity other than the target has been refused on an
\* offer that is still active.
C9_Witness ==
    /\ result = [op |-> "accept_trading_offer",
                 err |-> "OfferNotTargetedToYou"]
    /\ \E i \in DOMAIN trading_offer :
          /\ trading_offer[i].is_active
          /\ trading_offer[i].target_player \in Identities
          /\ trading_offer[i].target_player # trading_offer[i].offerer

C10_Step ==
    /\ \A i \in DOMAIN battle' : battle'[i].status # "Cancelled"
    /\ \A i \in DOMAIN battle :
          /\ battle'[i].status # battle[i].status =>
                \/ /\ battle[i].status = "Waiting"
                   /\ battle'[i].status = "Active"
                   /\ result' = [op |-> "join_battle", err |-> Ok]
                \/ /\ battle[i].status = "Active"
                   /\ battle'[i].status = "Finished"
                   /\ result' = [op |-> "execute_move", err |-> Ok]
          /\ battle[i].status = "Finished" =>
                /\ battle'[i] = battle[i]
                /\ \A p \in Identities, t \in Teams :
                      JoinBattle(i, p, t) => result'.err # Ok
                /\ \A p \in Identities, m \in MoveIndexes,
                      cur \in DOMAIN pokemon_card,
                      tgt \in DOMAIN pokemon_card :
                      ExecuteMove(i, p, m, cur, tgt) => result'.err # Ok

\* C10: a battle's status only moves Waiting -> Active, by join_battle, and
\* Active -> Finished, by execute_move; a Finished battle is never changed
\* again, join_battle and execute_move on it fail, and no battle is ever
\* Cancelled.
C10_StatusMonotonic == [][C10_Step]_vars

\* C10 witness: a battle is Finished and a join of a battle has then been
\* refused as not available.
C10_Witness ==
    /\ \E i \in DOMAIN battle : battle[i].status = "Finished"
    /\ \A i \in DOMAIN battle : battle[i].status # "Waiting"
    /\ result = [op |-> "join_battle", err |-> "BattleNotAvailable"]

----------------------------------------------------------------------------
\* The accounts and the move index an execute_move call can name; the error
\* of the call does not depend on the target_pokemon account.
MoveInputs ==
    (DOMAIN battle) \X Identities \X MoveIndexes \X (DOMAIN pokemon_card)

\* The step is a call of the instruction op.
CallOf(op) == now' = now /\ result'.op = op

\* In every Active battle the player to move is one of the two participants.
TurnHolderIsParticipant ==
    \A i \in DOMAIN battle :
        battle[i].status = "Active" =>
            battle[i].current_player \in {battle[i].player1, battle[i].player2}

\* x names an Active battle and a caller that is not its current_player.
OutOfTurn(x) ==
    /\ battle[x[1]].status = "Active"
    /\ x[2] # battle[x[1]].current_player

\* C11 as stated: execute_move on an Active battle succeeds only for
\* current_player, every other caller gets NotYourTurn, and the
\* current_player of an Active battle is player1 or player2.
C11_Original ==
    /\ TurnHolderIsParticipant
    /\ \A x \in MoveInputs :
          OutOfTurn(x) =>
              ExecuteMoveErr(x[1], x[2], x[3], x[4]) = "NotYourTurn"

\* C11: execute_move on an Active battle succeeds only for current_player;
\* another caller that has a player account gets NotYourTurn, one without a
\* player account is rejected with AccountNotInitialized; and the
\* current_player of an Active battle is player1 or player2.
C11_TurnOwnership ==
    /\ TurnHolderIsParticipant
    /\ \A x \in MoveInputs :
          OutOfTurn(x) =>
              ExecuteMoveErr(x[1], x[2], x[3], x[4]) =
                  IF player_state[x[2]].initialized THEN "NotYourTurn"
                  ELSE "AccountNotInitialized"

\* A participant that is not the player to move was refused.
C11_Witness ==
    /\ result = [op |-> "execute_move", err |-> "NotYourTurn"]
    /\ \E i \in DOMAIN battle :
          /\ battle[i].status = "Active"
          /\ battle[i].player1 # battle[i].player2
          /\ battle[i].turn_number = 1
          /\ battle[i].current_player = battle[i].player2

----------------------------------------------------------------------------
\* Every token id of the team is a minted card owned by player.
TeamOwnedBy(team, player) ==
    \A k \in DOMAIN team :
        /\ team[k] < Len(pokemon_card)
        /\ pokemon_card[team[k] + 1].owner = player

\* C12: create_battle and join_battle succeed only with a team of minted
\* cards owned by the caller, so player1_pokemon holds only cards owned by
\* player1 and player2_pokemon only cards owned by player2.
C12_TeamsAreOwnedCards ==
    \A i \in DOMAIN battle :
        /\ TeamOwnedBy(battle[i].player1_pokemon, battle[i].player1)
        /\ TeamOwnedBy(battle[i].player2_pokemon, battle[i].player2)

----------------------------------------------------------------------------
\* The deadline of battle b has passed.
PastDeadline(b) == now > b.created_at + max_battle_duration

\* x names an Active battle and its current_player.
InTurn(x) ==
    /\ battle[x[1]].status = "Active"
    /\ x[2] = battle[x[1]].current_player

\* execute_move by the current player of an Active battle returns
\* BattleTimeout exactly when the deadline has passed.
TimeoutExactlyPastDeadline ==
    \A x \in MoveInputs :
        InTurn(x) =>
            (ExecuteMoveErr(x[1], x[2], x[3], x[4]) = "BattleTimeout"
                <=> PastDeadline(battle[x[1]]))

\* C13: execute_move by the current player of an Active battle fails with
\* BattleTimeout exactly when now > created_at + max_battle_duration (not at
\* the deadline itself), and once the deadline has passed no step changes
\* the battle: no later execute_move succeeds and it stays Active.  The
\* first conjunct is evaluated after every step that changes an account or
\* the clock; no battle exists at the start.
C13_Step ==
    /\ (UNCHANGED accounts /\ now' = now) \/ TimeoutExactlyPastDeadline'
    /\ now' >= now
    /\ \A i \in DOMAIN battle :
          (battle[i].status = "Active" /\ PastDeadline(battle[i])) =>
              (battle'[i] = battle[i] /\ PastDeadline(battle[i])')
C13_BattleTimeout == [][C13_Step]_vars

\* The current player of an Active battle was refused one second after the
\* deadline.
C13_Witness ==
    /\ result = [op |-> "execute_move", err |-> "BattleTimeout"]
    /\ \E i \in DOMAIN battle :
          /\ battle[i].status = "Active"
          /\ now = battle[i].created_at + max_battle_duration + 1

----------------------------------------------------------------------------
\* The five failure conditions of execute_move as C14 lists them, for the
\* battle, caller, move index and current_pokemon named by x.
BadIndex(x) == x[3] >= Len(pokemon_card[x[4]].moves)
FirstFailure(x) ==
    IF battle[x[1]].status # "Active" THEN "BattleNotActive"
    ELSE IF x[2] # battle[x[1]].current_player THEN "NotYourTurn"
    ELSE IF PastDeadline(battle[x[1]]) THEN "BattleTimeout"
    ELSE IF BadIndex(x) THEN "InvalidMove"
    ELSE IF player_state[x[2]].energy <
              pokemon_card[x[4]].moves[x[3] + 1].energy_cost
         THEN "InsufficientEnergy"
    ELSE Ok

\* C14: execute_move returns the first failure in the order BattleNotActive,
\* NotYourTurn, BattleTimeout, InvalidMove, InsufficientEnergy and succeeds
\* if and only if none of the five conditions holds.  Stated for callers
\* that have a player account.
C14_Step ==
    CallOf("execute_move") =>
        \A x \in MoveInputs, tgt \in DOMAIN pokemon_card :
            (/\ player_state[x[2]].initialized
             /\ ExecuteMove(x[1], x[2], x[3], x[4], tgt))
            => result'.err = FirstFailure(x)
C14_GuardOrder == [][C14_Step]_vars

----------------------------------------------------------------------------
\* The step from battle record b to c is what C15 allows: a successful
\* move that does not finish the battle passes the turn to the other
\* participant and counts it, every other step keeps both fields.
TurnPassed(b, c) ==
    /\ c.turn_number = b.turn_number + 1
    /\ c.current_player # b.current_player
    /\ c.current_player \in {b.player1, b.player2}
TurnKept(b, c) ==
    /\ c.turn_number = b.turn_number
    /\ c.current_player = b.current_player

\* C15: a new battle has current_player = player1 and turn_number = 0; a
\* successful execute_move that does not finish the battle gives the turn
\* to the other participant and adds 1 to turn_number; a finishing move and
\* every other step change neither; current_player is player1 exactly when
\* turn_number is even.
C15_Step ==
    /\ \A i \in (DOMAIN battle') \ (DOMAIN battle) :
          /\ battle'[i].current_player = battle'[i].player1
          /\ battle'[i].turn_number = 0
    /\ \A i \in DOMAIN battle :
          IF /\ CallOf("execute_move") /\ result'.err = Ok
             /\ battle'[i] # battle[i] /\ battle'[i].status # "Finished"
          THEN TurnPassed(battle[i], battle'[i])
          ELSE TurnKept(battle[i], battle'[i])
    /\ \A i \in DOMAIN battle' :
          battle'[i].current_player = battle'[i].player1
              <=> battle'[i].turn_number % 2 = 0
C15_TurnSequencing == [][C15_Step]_vars

----------------------------------------------------------------------------
\* What C16 requires of a successful execute_move(i, player, move_index)
\* with current_pokemon cur and target_pokemon tgt.
MoveEffect(i, player, move_index, cur, tgt) ==
    LET id == battle[i].battle_id
        damage == emitted'[1].damage
        finishes == damage >= pokemon_card[tgt].hp
        moved == [name |-> "MoveExecuted", id |-> id, who |-> player,
                  damage |-> damage]
        finished == [name |-> "BattleFinished", id |-> id, who |-> player]
    IN /\ damage \in DamageOutcomes(pokemon_card[cur], pokemon_card[tgt],
                                     pokemon_card[cur].moves[move_index + 1])
       /\ battle'[i].status = "Finished" <=> finishes
       /\ IF finishes
          THEN /\ battle'[i].finished_at = now
               /\ emitted' = <<moved, finished>>
          ELSE /\ battle'[i].finished_at = battle[i].finished_at
               /\ battle'[i].status = "Active"
               /\ emitted' = <<moved>>
       /\ \A q \in Identities :
             /\ player_state'[q].wins = player_state[q].wins
             /\ player_state'[q].losses = player_state[q].losses
             /\ player_state'[q].active_battle_id =
                  player_state[q].active_battle_id
             /\ player_state'[q].card_count = player_state[q].card_count
             /\ q # player => player_state'[q] = player_state[q]

\* C16: a successful execute_move sets status Finished and finished_at = now
\* exactly when the damage is at least the target's hp, emitting
\* MoveExecuted and then BattleFinished with the actor as winner; it leaves
\* wins, losses and active_battle_id of every player unchanged, and no
\* field of any player other than the actor.
C16_Step ==
    (CallOf("execute_move") /\ result'.err = Ok) =>
        \A x \in MoveInputs, tgt \in DOMAIN pokemon_card :
            ExecuteMove(x[1], x[2], x[3], x[4], tgt)
                => MoveEffect(x[1], x[2], x[3], x[4], tgt)
C16_BattleFinish == [][C16_Step]_vars

\* The creator of a battle has just finished it against another player with
\* damage equal to the target's hp.
C16_Witness ==
    /\ result = [op |-> "execute_move", err |-> Ok]
    /\ Len(emitted) = 2
    /\ emitted[2].name = "BattleFinished"
    /\ \E i \in DOMAIN battle :
          /\ battle[i].status = "Finished"
          /\ battle[i].finished_at = now
          /\ battle[i].player1 # battle[i].player2
          /\ emitted[2].who = battle[i].player1
          /\ emitted[1].damage = 33

----------------------------------------------------------------------------
\* max(1, floor(power * attack / (defense + 50))) over the integers.
ExactDamage(power, attack, defense) ==
    LET quotient == (power * attack) \div (defense + 50)
    IN IF quotient >= 1 THEN quotient ELSE 1

\* C17: for all values of power, attack and defense that fit the word,
\* calculate_damage returns max(1, floor(power * attack / (defense + 50)))
\* computed over the integers: the product and the sum never wrap or abort.
C17_DamageIsExact ==
    probe.done =>
        probe.damage = ExactDamage(probe.power, probe.attack, probe.defense)

----------------------------------------------------------------------------
\* What C18 requires of a successful join_battle(i, player, team): the
\* battle was Waiting, the joiner and its team are recorded, the battle is
\* Active, and a join of the same battle by any other player that has a
\* player account now fails with BattleNotAvailable.
JoinEffect(i, player, team) ==
    /\ battle[i].status = "Waiting"
    /\ battle'[i].player2 = player
    /\ battle'[i].player2_pokemon = team
    /\ battle'[i].status = "Active"
    /\ \A q \in Identities \ {player}, t \in Teams :
          player_state[q].initialized =>
              JoinBattleErr(i, q, t)' = "BattleNotAvailable"

\* C18: join_battle succeeds only on a Waiting battle and makes it Active
\* with the caller as player2; of two different players that try to join
\* the same Waiting battle one after the other the first succeeds and the
\* second fails with BattleNotAvailable; player2 and player2_pokemon never
\* change once the battle is not Waiting.
C18_Step ==
    /\ (CallOf("join_battle") /\ result'.err = Ok) =>
          \A i \in DOMAIN battle, p \in Identities, t \in Teams :
              JoinBattle(i, p, t) => JoinEffect(i, p, t)
    /\ \A i \in DOMAIN battle :
          battle[i].status # "Waiting" =>
              /\ battle'[i].player2 = battle[i].player2
              /\ battle'[i].player2_pokemon = battle[i].player2_pokemon
C18_JoinedAtMostOnce == [][C18_Step]_vars

\* B has joined A's battle and A's own attempt to join it was refused.
C18_Witness ==
    /\ result = [op |-> "join_battle", err |-> "BattleNotAvailable"]
    /\ Len(battle) = 1
    /\ battle[1].status = "Active"
    /\ battle[1].player2 # battle[1].player1
    /\ \A q \in Identities :
          player_state[q].initialized /\ NotInBattle(player_state[q])

----------------------------------------------------------------------------
\* Offer i goes from active to inactive, nothing else in any offer changes,
\* and the log of the call is TradingOfferAccepted for that offer.
OnlyDeactivated(i) ==
    /\ trading_offer[i].is_active
    /\ trading_offer' = [trading_offer EXCEPT ![i].is_active = FALSE]
    /\ Len(emitted') = 1
    /\ emitted'[1].name = "TradingOfferAccepted"
    /\ emitted'[1].id = trading_offer[i].offer_id
    /\ emitted'[1].who \in Identities

\* C19: a successful accept_trading_offer changes only the offer's is_active
\* (true to false) and emits TradingOfferAccepted; every card, player
\* record, battle, counter and other offer field is unchanged; and no step
\* of any instruction changes the owner of a minted card.
C19_Step ==
    /\ \A k \in DOMAIN pokemon_card :
          pokemon_card'[k].owner = pokemon_card[k].owner
    /\ (CallOf("accept_trading_offer") /\ result'.err = Ok) =>
          /\ UNCHANGED <<game_state, player_state, pokemon_card, battle>>
          /\ \E i \in DOMAIN trading_offer : OnlyDeactivated(i)
C19_AcceptFrame == [][C19_Step]_vars

\* An offer of cards was accepted while a minted card exists.
C19_Witness ==
    /\ result = [op |-> "accept_trading_offer", err |-> Ok]
    /\ Len(pokemon_card) = 1
    /\ Len(trading_offer) = 1
    /\ ~trading_offer[1].is_active
    /\ trading_offer[1].offered_cards # <<>>
    /\ trading_offer[1].offerer = pokemon_card[1].owner

----------------------------------------------------------------------------
\* execute_move with a move that costs energy, every earlier guard passing,
\* returns InsufficientEnergy.
CostlyMoveRefused ==
    \A x \in MoveInputs :
        (/\ InTurn(x)
         /\ ~PastDeadline(battle[x[1]])
         /\ ~BadIndex(x)
         /\ pokemon_card[x[4]].moves[x[3] + 1].energy_cost > 0)
        => ExecuteMoveErr(x[1], x[2], x[3], x[4]) = "InsufficientEnergy"

\* A successful execute_move takes exactly the cost of the move from the
\* caller's energy.
EnergyDebited(i, player, move_index, cur) ==
    player_state'[player].energy =
        player_state[player].energy
            - pokemon_card[cur].moves[move_index + 1].energy_cost

\* C20: every player's energy is within 0..max_energy and in fact 0; it
\* changes only in a successful execute_move, by exactly the energy_cost of
\* the move; and execute_move with a move of energy_cost > 0 whose earlier
\* guards pass fails with InsufficientEnergy.  The last conjunct is
\* evaluated after every step that changes an account or the clock; no
\* battle exists at the start.
C20_Step ==
    /\ \A p \in Identities :
          /\ player_state'[p].energy \in 0 .. max_energy
          /\ player_state'[p].energy = 0
          /\ player_state'[p].energy # player_state[p].energy =>
                (CallOf("execute_move") /\ result'.err = Ok)
    /\ (CallOf("execute_move") /\ result'.err = Ok) =>
          \A x \in MoveInputs, tgt \in DOMAIN pokemon_card :
              ExecuteMove(x[1], x[2], x[3], x[4], tgt)
                  => EnergyDebited(x[1], x[2], x[3], x[4])
    /\ (UNCHANGED accounts /\ now' = now) \/ CostlyMoveRefused'
C20_EnergyStaysZero == [][C20_Step]_vars

\* The current player of an Active battle chose a move that costs energy
\* before the deadline and was refused.
C20_Witness ==
    /\ result = [op |-> "execute_move", err |-> "InsufficientEnergy"]
    /\ \E i \in DOMAIN battle :
          /\ battle[i].status = "Active"
          /\ ~PastDeadline(battle[i])
          /\ player_state[battle[i].current_player].energy = 0

----------------------------------------------------------------------------
\* The sum of card_count over the players of S.
RECURSIVE SumCardCount(_)
SumCardCount(S) ==
    IF S = {} THEN 0
    ELSE LET p == CHOOSE q \in S : TRUE
         IN player_state[p].card_count + SumCardCount(S \ {p})

\* The number of cards whose owner is p.
CardsOwnedBy(p) ==
    Cardinality({k \in DOMAIN pokemon_card : pokemon_card[k].owner = p})

\* C21: total_cards_minted equals the number of card records and the sum of
\* card_count over all players, each player's card_count equals the number
\* of cards that player owns, and the token ids of the cards are exactly
\* 0 .. total_cards_minted - 1.
C21_MintAccounting ==
    /\ game_state.total_cards_minted = Len(pokemon_card)
    /\ game_state.total_cards_minted = SumCardCount(Identities)
    /\ \A p \in Identities : player_state[p].card_count = CardsOwnedBy(p)
    /\ {pokemon_card[k].token_id : k \in DOMAIN pokemon_card} =
          0 .. game_state.total_cards_minted - 1
    /\ \A k \in DOMAIN pokemon_card : pokemon_card[k].token_id = k - 1

\* Both players have minted a card and an offer has been created.
C21_Witness ==
    /\ game_state.total_cards_minted = 2
    /\ \A p \in Identities : player_state[p].card_count = 1
    /\ pokemon_card[1].owner # pokemon_card[2].owner
    /\ result = [op |-> "create_trading_offer", err |-> Ok]

----------------------------------------------------------------------------
\* C22: every battle that is Active or Finished has player2 different from
\* player1: no player can join a battle they created themselves.
C22_DistinctOpponents ==
    \A i \in DOMAIN battle :
        battle[i].status \in {"Active", "Finished"} =>
            battle[i].player2 # battle[i].player1
====
